---------------------------- MODULE Spec2Model ----------------------------
(***************************************************************************)
(* Order placement and fulfilment of the e-commerce backend:               *)
(*   src/src/controllers/ordersController.ts  (createOrder, updateOrder,   *)
(*        addProductToOrder, removeProductFromOrder, deleteOrder)          *)
(*   src/unnamed/part_004                     (stripeWebhook,              *)
(*        handleSuccessfulPayment)                                         *)
(*   src/unnamed/part_009                     (tables, enums, NOT NULL and *)
(*        foreign-key constraints)                                         *)
(*                                                                         *)
(* Every request is a process.  One step of a process is one database      *)
(* statement together with the synchronous JavaScript that follows it up   *)
(* to the next await: Node runs that code without interruption, and the    *)
(* store is the only state requests share.  Statements issued through `db` *)
(* commit on their own; statements issued through `tx` inside              *)
(* db.transaction are invisible to other requests until the callback       *)
(* returns (commit) and vanish when it throws (rollback).                  *)
(*                                                                         *)
(* Money is kept in integer cents (stored decimal(10,2) values) and in     *)
(* mills, tenths of a cent (values computed before they are stored).       *)
(***************************************************************************)
EXTENDS Integers, Sequences, FiniteSets, TLC

\* ------------------------------------------------------------------ bounds
NumReqs == 3            \* request slots (each serves one request)
NumCreators == 2        \* slots that serve concurrent order creations
MaxOrderId == 2         \* largest order id a request can name
MaxItemId == 2          \* largest order item id a request can name
MaxQty == 3             \* largest quantity of one cart line
MaxCart == 2            \* longest cart
OnHand == 5             \* quantity of product 1 when the catalog is loaded
LowStock == 2           \* quantity of product 2 when the catalog is loaded
SalePrice == 89999      \* the price (cents) an updateProduct request sets
VariantStock == 1       \* quantity of variant 1 when the catalog is loaded
BulkQty == 5            \* largest quantity of a bulk order line

\* ------------------------------------------------------- program constants
TaxRatePercent == 10    \* subtotal * 0.1
ShippingCents == 1000   \* shippingAmount = 10.00

Reqs == 1..NumReqs
Products == {1, 2}                  \* rows of the products table
ProductIds == Products \cup {3}     \* ids a request can name; 3 has no row
Variants == {1}                     \* rows of product_variants
VariantIds == Variants \cup {2}     \* 2 has no row
VariantParent == [v \in Variants |-> 1]
NoVariant == 0                      \* variantId absent (falsy in `if (item.variantId)`)
NoOrder == 0
NotANumber == 0         \* parseInt of a missing or malformed parameter
NoDate == 0             \* a timestamp column that is null
NoSession == 0          \* a webhook event that belongs to no checkout of the model

\* Unit prices in cents: 999.99, 699.99; the variant costs 0.05.
CatalogPrice == [p \in Products |-> IF p = 1 THEN 99999 ELSE 69999]
VariantPrice == [v \in Variants |-> 5]

VARIABLES
    products,       \* products table: id -> [quantity, price, trackQuantity, allowBackorder]
    variants,       \* product_variants table: id -> [quantity, price, productId]
    orders,         \* orders table: set of order rows
    orderItems,     \* order_items table: set of item rows
    orderSeq,       \* orders.id serial sequence (last value handed out)
    itemSeq,        \* order_items.id serial sequence
    endpointSecret, \* process.env.STRIPE_WEBHOOK_SECRET is set
    req,            \* the requests: inputs, position, locals, open transaction, response
    decBy           \* history: the units request r's commits took off each product
                    \* (decBy[r].product[p]) and each variant (decBy[r].variant[v])

vars == <<products, variants, orders, orderItems, orderSeq, itemSeq, endpointSecret, req, decBy>>
db == <<products, variants, orders, orderItems>>

\* ------------------------------------------------------------------ inputs
PlainItems == [productId : ProductIds, variantId : {NoVariant}, quantity : 1..MaxQty]
VariantItems == [productId : {1}, variantId : VariantIds, quantity : 1..(VariantStock + 1)]
CartItems == PlainItems \cup VariantItems

SeqsUpTo(S, n) == UNION {[1..k -> S] : k \in 0..n}
Carts == SeqsUpTo(CartItems, MaxCart)
\* The webhook's metadata carries {productId, quantity} only.
WebhookCarts == SeqsUpTo(PlainItems, MaxCart)

\* The carts of concurrent requests: lines of product 1 in every quantity, a
\* line of the product without a row, a line of variant 1.
StockItems == [productId : {1}, variantId : {NoVariant}, quantity : 1..MaxQty]
GhostItem == [productId |-> 3, variantId |-> NoVariant, quantity |-> 1]
SmallCarts == SeqsUpTo(StockItems \cup {GhostItem} \cup
                       [productId : {1}, variantId : Variants, quantity : {1}], MaxCart)
SmallWebhookCarts == SeqsUpTo(StockItems \cup {GhostItem}, MaxCart)
PaymentIntents == {"pi_1"}

\* ----------------------------------------------------------------- pricing
RECURSIVE SumSeq(_)
SumSeq(s) == IF s = <<>> THEN 0 ELSE Head(s) + SumSeq(Tail(s))

Mills(cents) == cents * 10
\* const taxAmount = subtotal * 0.1
TaxAmountMills(subtotal) == (Mills(subtotal) * TaxRatePercent) \div 100
\* the total without the shipping amount
TotalMills_NoShipping(subtotal) == Mills(subtotal) + TaxAmountMills(subtotal)
\* const total = subtotal + taxAmount + shippingAmount
TotalMills(subtotal) == Mills(subtotal) + TaxAmountMills(subtotal) + Mills(ShippingCents)

\* x.toString() stored in a decimal(10,2) column.  The store rounds the decimal
\* string to two places, half away from zero.  The string is the shortest
\* decimal of an IEEE double, so a value whose exact third decimal is 5 may
\* reach the store a hair above or below the half: both roundings are kept.
ToNumeric2(mills) ==
    IF mills % 10 = 5 THEN {mills \div 10, mills \div 10 + 1}
    ELSE {(mills + 5) \div 10}

\* ----------------------------------------------------------- request record
IdleReq ==
    [op |-> "none", pc |-> "idle", token |-> "none", auth |-> FALSE, bodyOk |-> FALSE,
     sigOk |-> FALSE, evType |-> "", metaUser |-> 0, intent |-> "",
     items |-> <<>>, idx |-> 0, lines |-> <<>>, subtotal |-> 0,
     orderId |-> NoOrder, txOrder |-> {}, txItems |-> {},
     txDec |-> [p \in Products |-> 0], txVDec |-> [v \in Variants |-> 0],
     newStatus |-> "", newPayment |-> "", seen |-> "", delRows |-> {},
     errName |-> {}, errAvailable |-> {}, orderItemId |-> NotANumber,
     session |-> NoSession, productId |-> NotANumber, newPrice |-> 0,
     status |-> 0, error |-> ""]

Respond(q, code, err) == [q EXCEPT !.pc = "done", !.status = code, !.error = err]

\* The store once the catalog is loaded and before any order: product 1
\* has the schema's defaults (trackQuantity true, allowBackorder false),
\* product 2 has the flags given.
InitStore(track2, backorder2) ==
    /\ products = [p \in Products |->
          [quantity |-> IF p = 1 THEN OnHand ELSE LowStock,
           price |-> CatalogPrice[p],
           trackQuantity |-> IF p = 1 THEN TRUE ELSE track2,
           allowBackorder |-> IF p = 1 THEN FALSE ELSE backorder2]]
    /\ variants = [v \in Variants |->
          [quantity |-> VariantStock, price |-> VariantPrice[v], productId |-> VariantParent[v]]]
    /\ orders = {}
    /\ orderItems = {}
    /\ orderSeq = 0
    /\ itemSeq = 0
    /\ endpointSecret \in BOOLEAN
    /\ req = [r \in Reqs |-> IdleReq]
    /\ decBy = [r \in Reqs |-> [product |-> [p \in Products |-> 0],
                               variant |-> [v \in Variants |-> 0]]]

Init == InitStore(TRUE, FALSE)

InitAnyFlags == \E t \in BOOLEAN, b \in BOOLEAN : InitStore(t, b)


\* ------------------------------------------------------------- createOrder
\* the check without its allowBackorder term
InsufficientInventory_IgnoreBackorder(product, quantity) ==
    product.trackQuantity /\ product.quantity < quantity
\* if (product.trackQuantity && product.quantity < item.quantity && !product.allowBackorder)
InsufficientInventory(product, quantity) ==
    product.trackQuantity /\ product.quantity < quantity /\ ~product.allowBackorder

\* The Authorization header: absent, a token jwt.verify rejects, a token it
\* accepts.
Tokens == {"none", "forged", "valid"}

\* the token decoded without checking its signature
GetUserIdFromToken_Decode(token) == IF token = "none" THEN 0 ELSE 1
\* getUserIdFromToken (lines 60-74); 0 stands for null
GetUserIdFromToken(token) ==
    IF token = "none" THEN 0
    ELSE IF token = "forged" THEN 0
    ELSE 1

\* Lines 82-112: the synchronous start of the handler, up to the first select.
CreateOrderEntry(q) ==
    IF ~q.auth THEN Respond(q, 401, "Unauthenticated")
    ELSE IF ~q.bodyOk \/ Len(q.items) = 0 THEN Respond(q, 400, "InvalidRequest")
    ELSE [q EXCEPT !.pc = "item", !.idx = 1]

StartCreateOrder(r, carts) ==
    /\ req[r].op = "none"
    /\ \E t \in Tokens, b \in BOOLEAN, c \in carts :
          req' = [req EXCEPT ![r] = CreateOrderEntry(
                    [IdleReq EXCEPT !.op = "createOrder", !.token = t,
                                    !.auth = (GetUserIdFromToken(t) # 0),
                                    !.bodyOk = b, !.items = c])]
    /\ UNCHANGED <<db, orderSeq, itemSeq, endpointSecret, decBy>>

\* orderItems.push({...}) and the move to the next item, or past the loop.
PushLine(q, line) ==
    [q EXCEPT !.subtotal = @ + line.price * line.quantity,
              !.lines = Append(@, line),
              !.idx = @ + 1,
              !.pc = IF q.idx = Len(q.items) THEN "totals" ELSE "item"]

\* One pass of `for (const item of items)` (lines 114-175): the select(s) of the
\* item's rows, read through `db` outside any transaction, and the checks on
\* them.  With a variantId, `product` is the array the select returned, not
\* its first row: product.trackQuantity, product.quantity and product.name
\* are undefined, so the stock check is skipped and the line has no name.
CheckItem(q) ==
    LET it == q.items[q.idx] IN
    IF it.variantId # NoVariant
    THEN IF it.variantId \notin Variants
            \/ variants[it.variantId].productId \notin Products
         THEN Respond(q, 404, "ProductNotFound")
         ELSE PushLine(q, [productId |-> it.productId, variantId |-> it.variantId,
                           quantity |-> it.quantity,
                           price |-> variants[it.variantId].price, named |-> FALSE])
    ELSE IF it.productId \notin Products
         THEN Respond(q, 404, "ProductNotFound")
         ELSE IF InsufficientInventory(products[it.productId], it.quantity)
              \* `Insufficient inventory for product ${product.name}` (line 158)
              THEN Respond([q EXCEPT !.errName = {it.productId}], 400, "InsufficientStock")
              ELSE PushLine(q, [productId |-> it.productId, variantId |-> NoVariant,
                                quantity |-> it.quantity,
                                price |-> products[it.productId].price, named |-> TRUE])

\* The loop reserving the stock of each item as soon as the item passes.
CreateOrderItem_ReserveAsChecked(r) ==
    LET q == req[r]
        it == q.items[q.idx]
        passed == CheckItem(q).pc # "done" /\ it.variantId = NoVariant
    IN  /\ q.op = "createOrder" /\ q.pc = "item"
        /\ req' = [req EXCEPT ![r] = CheckItem(q)]
        /\ products' = IF passed
                       THEN [products EXCEPT ![it.productId].quantity = @ - it.quantity]
                       ELSE products
        /\ decBy' = IF passed
                    THEN [decBy EXCEPT ![r].product[it.productId] = @ + it.quantity]
                    ELSE decBy
        /\ UNCHANGED <<variants, orders, orderItems, orderSeq, itemSeq, endpointSecret>>

CreateOrderItem(r) ==
    /\ req[r].op = "createOrder" /\ req[r].pc = "item"
    /\ req' = [req EXCEPT ![r] = CheckItem(req[r])]
    /\ UNCHANGED <<db, orderSeq, itemSeq, endpointSecret, decBy>>

\* Lines 177-181: the totals, then db.transaction opens.
CreateOrderTotals(r) ==
    /\ req[r].op = "createOrder" /\ req[r].pc = "totals"
    /\ req' = [req EXCEPT ![r].pc = "tx_order"]
    /\ UNCHANGED <<db, orderSeq, itemSeq, endpointSecret, decBy>>

\* Line 177 reads `const taxAmount = subtotal * 0.1;x`: the statement is followed
\* by the expression statement `x`.  Nothing in the file binds x; evaluating an
\* unbound identifier throws ReferenceError, which the catch of lines 249-252
\* answers with 500 before the transaction opens.  Both outcomes (x bound by
\* the global scope, x unbound) are kept.
CreateOrderStray(r) ==
    /\ req[r].op = "createOrder" /\ req[r].pc = "totals"
    /\ req' = [req EXCEPT ![r] = Respond(@, 500, "Internal")]
    /\ UNCHANGED <<db, orderSeq, itemSeq, endpointSecret, decBy>>

\* tx.insert(ordersTable).values({... status: 'pending', paymentStatus: 'pending'})
\* The serial id is taken from the sequence at once; a sequence is never rolled back.
TxInsertOrder(r) ==
    LET q == req[r] IN
    /\ q.op = "createOrder" /\ q.pc = "tx_order"
    /\ orderSeq' = orderSeq + 1
    /\ \E tax \in ToNumeric2(TaxAmountMills(q.subtotal)),
          tot \in ToNumeric2(TotalMills(q.subtotal)) :
          req' = [req EXCEPT ![r] = [q EXCEPT
              !.pc = "tx_items",
              !.orderId = orderSeq + 1,
              !.txOrder = {[id |-> orderSeq + 1, req |-> r, via |-> "direct",
                            status |-> "pending", paymentStatus |-> "pending",
                            subtotal |-> q.subtotal, taxAmount |-> tax,
                            shippingAmount |-> ShippingCents, discountAmount |-> 0,
                            total |-> tot, transactionId |-> "",
                            shippedAt |-> NoDate, deliveredAt |-> NoDate,
                            cancelledAt |-> NoDate]}]]
    /\ UNCHANGED <<db, itemSeq, endpointSecret, decBy>>

ClearTx(q) ==
    [q EXCEPT !.txOrder = {}, !.txItems = {}, !.txDec = [p \in Products |-> 0],
              !.txVDec = [v \in Variants |-> 0]]

ItemRows(q, r, first) ==
    {[id |-> first + i, orderId |-> q.orderId, req |-> r,
      productId |-> q.lines[i].productId, variantId |-> q.lines[i].variantId,
      quantity |-> q.lines[i].quantity, price |-> q.lines[i].price] : i \in 1..Len(q.lines)}

\* tx.insert(orderItemsTable).values(orderItemsData).  product_name is NOT NULL
\* (schema line 230): a line without a name makes the statement fail, the
\* callback throws, the transaction rolls back and the catch answers 500.
TxInsertItems(r) ==
    LET q == req[r] IN
    /\ q.op = "createOrder" /\ q.pc = "tx_items"
    /\ IF \E i \in 1..Len(q.lines) : ~q.lines[i].named
       THEN /\ req' = [req EXCEPT ![r] = Respond(ClearTx(q), 500, "Internal")]
            /\ UNCHANGED itemSeq
       ELSE /\ itemSeq' = itemSeq + Len(q.lines)
            /\ req' = [req EXCEPT ![r] = [q EXCEPT
                  !.pc = "tx_dec", !.idx = 1, !.txItems = ItemRows(q, r, itemSeq)]]
    /\ UNCHANGED <<db, orderSeq, endpointSecret, decBy>>

\* One pass of the second `for (const item of items)` (lines 220-236):
\* set quantity = quantity - item.quantity on the variant row when the item
\* names a variant, else on the product row.  The update is relative and is
\* applied to the row as it stands when the transaction commits.
TxDecrement(r) ==
    LET q == req[r]
        it == q.items[q.idx]
    IN  /\ q.op = "createOrder" /\ q.pc = "tx_dec"
        /\ req' = [req EXCEPT ![r] = [q EXCEPT
              !.txDec = IF it.variantId = NoVariant /\ it.productId \in Products
                        THEN [@ EXCEPT ![it.productId] = @ + it.quantity] ELSE @,
              !.txVDec = IF it.variantId \in Variants
                         THEN [@ EXCEPT ![it.variantId] = @ + it.quantity] ELSE @,
              !.idx = @ + 1,
              !.pc = IF q.idx = Len(q.items) THEN "tx_commit" ELSE "tx_dec"]]
        /\ UNCHANGED <<db, orderSeq, itemSeq, endpointSecret, decBy>>

\* The store applies everything the transaction wrote, at once.
ApplyTx(r) ==
    LET q == req[r] IN
    /\ orders' = orders \cup q.txOrder
    /\ orderItems' = orderItems \cup q.txItems
    /\ products' = [p \in Products |->
          [products[p] EXCEPT !.quantity = @ - q.txDec[p]]]
    /\ variants' = [v \in Variants |->
          [variants[v] EXCEPT !.quantity = @ - q.txVDec[v]]]
    /\ decBy' = [decBy EXCEPT ![r] =
          [product |-> [p \in Products |-> @.product[p] + q.txDec[p]],
           variant |-> [v \in Variants |-> @.variant[v] + q.txVDec[v]]]]

\* The callback returns: commit, then res.status(201) (lines 238-247).
TxCommit(r) ==
    /\ req[r].op = "createOrder" /\ req[r].pc = "tx_commit"
    /\ ApplyTx(r)
    /\ req' = [req EXCEPT ![r] = Respond(ClearTx(@), 201, "")]
    /\ UNCHANGED <<orderSeq, itemSeq, endpointSecret>>

TxPcs == {"tx_order", "tx_items", "tx_dec", "tx_commit"}

\* A statement of the transaction, or its commit, fails (connection lost,
\* deadlock victim, unique order_number taken): the callback throws, the
\* store rolls the transaction back, the catch (lines 249-252) answers 500.
\* The failure answered without a rollback: what the transaction wrote stays.
TxFail_NoRollback(r) ==
    /\ req[r].op = "createOrder" /\ req[r].pc \in TxPcs
    /\ ApplyTx(r)
    /\ req' = [req EXCEPT ![r] = Respond(ClearTx(@), 500, "Internal")]
    /\ UNCHANGED <<orderSeq, itemSeq, endpointSecret>>

TxFail(r) ==
    /\ req[r].op = "createOrder" /\ req[r].pc \in TxPcs
    /\ req' = [req EXCEPT ![r] = Respond(ClearTx(@), 500, "Internal")]
    /\ UNCHANGED <<db, orderSeq, itemSeq, endpointSecret, decBy>>

CreateOrderStep(r) ==
    \/ CreateOrderItem(r)
    \/ CreateOrderTotals(r)
    \/ CreateOrderStray(r)
    \/ TxInsertOrder(r)
    \/ TxInsertItems(r)
    \/ TxDecrement(r)
    \/ TxCommit(r)
    \/ TxFail(r)

\* ------------------------------------------- stripeWebhook (part_004 128-240)
Completed == "checkout.session.completed"

\* Lines 129-169: signature check, event type, and the metadata check that
\* opens handleSuccessfulPayment.  What handleSuccessfulPayment throws is
\* caught at lines 152-155 and the handler goes on to res.json({received: true}).
\* the entry verifying the signature only when a secret is configured
WebhookEntry_VerifyIfConfigured(q, secret) ==
    IF secret /\ ~q.sigOk THEN Respond(q, 400, "InvalidSignature")
    ELSE IF q.evType # Completed THEN Respond(q, 200, "")
    ELSE IF q.metaUser = 0 \/ Len(q.items) = 0 THEN Respond(q, 200, "")
    ELSE [q EXCEPT !.pc = "wh_item", !.idx = 1]

WebhookEntry(q, secret) ==
    IF ~secret \/ ~q.sigOk THEN Respond(q, 400, "InvalidSignature")
    ELSE IF q.evType # Completed THEN Respond(q, 200, "")
    ELSE IF q.metaUser = 0 \/ Len(q.items) = 0 THEN Respond(q, 200, "")
    ELSE [q EXCEPT !.pc = "wh_item", !.idx = 1]

StartWebhook(r, carts) ==
    /\ req[r].op = "none"
    /\ \E s \in BOOLEAN, ty \in {Completed, "other"}, u \in {0, 1},
          pi \in PaymentIntents, c \in carts :
          req' = [req EXCEPT ![r] = WebhookEntry(
                    [IdleReq EXCEPT !.op = "webhook", !.sigOk = s, !.evType = ty,
                                    !.metaUser = u, !.intent = pi, !.items = c],
                    endpointSecret)]
    /\ UNCHANGED <<db, orderSeq, itemSeq, endpointSecret, decBy>>

\* The loop pricing a line with the price the checkout session showed.
WebhookItem_SessionPrice(r) ==
    LET q == req[r]
        it == q.items[q.idx]
        price == IF q.session # NoSession
                 THEN req[q.session].lines[q.idx].price
                 ELSE products[it.productId].price
    IN  /\ q.op = "webhook" /\ q.pc = "wh_item"
        /\ req' = [req EXCEPT ![r] =
              IF it.productId \notin Products
              THEN Respond(ClearTx(q), 200, "")
              ELSE [PushLine(q, [productId |-> it.productId, variantId |-> NoVariant,
                                 quantity |-> it.quantity,
                                 price |-> price, named |-> TRUE])
                    EXCEPT !.txDec = [@ EXCEPT ![it.productId] = @ + it.quantity],
                           !.pc = IF q.idx = Len(q.items) THEN "wh_order" ELSE "wh_item"]]
        /\ UNCHANGED <<db, orderSeq, itemSeq, endpointSecret, decBy>>

\* The loop with its update sent through db, committed at once.
WebhookItem_Autocommit(r) ==
    LET q == req[r]
        it == q.items[q.idx]
        known == it.productId \in Products
    IN  /\ q.op = "webhook" /\ q.pc = "wh_item"
        /\ req' = [req EXCEPT ![r] =
              IF ~known
              THEN Respond(ClearTx(q), 200, "")
              ELSE [PushLine(q, [productId |-> it.productId, variantId |-> NoVariant,
                                 quantity |-> it.quantity,
                                 price |-> products[it.productId].price, named |-> TRUE])
                    EXCEPT !.pc = IF q.idx = Len(q.items) THEN "wh_order" ELSE "wh_item"]]
        /\ products' = IF known
                       THEN [products EXCEPT ![it.productId].quantity = @ - it.quantity]
                       ELSE products
        /\ decBy' = IF known
                    THEN [decBy EXCEPT ![r].product[it.productId] = @ + it.quantity]
                    ELSE decBy
        /\ UNCHANGED <<variants, orders, orderItems, orderSeq, itemSeq, endpointSecret>>

\* One pass of `for (const item of cartItems)` (lines 176-206), inside the
\* transaction: select the product, take its current price, and
\* set quantity = quantity - item.quantity.  There is no stock check.
WebhookItem(r) ==
    LET q == req[r]
        it == q.items[q.idx]
    IN  /\ q.op = "webhook" /\ q.pc = "wh_item"
        /\ req' = [req EXCEPT ![r] =
              IF it.productId \notin Products
              THEN Respond(ClearTx(q), 200, "")
              ELSE [PushLine(q, [productId |-> it.productId, variantId |-> NoVariant,
                                 quantity |-> it.quantity,
                                 price |-> products[it.productId].price, named |-> TRUE])
                    EXCEPT !.txDec = [@ EXCEPT ![it.productId] = @ + it.quantity],
                           !.pc = IF q.idx = Len(q.items) THEN "wh_order" ELSE "wh_item"]]
        /\ UNCHANGED <<db, orderSeq, itemSeq, endpointSecret, decBy>>

\* an insert that leaves the status to the column's default, 'pending'
WebhookInsertOrder_DefaultStatus(r) ==
    LET q == req[r] IN
    /\ q.op = "webhook" /\ q.pc = "wh_order"
    /\ orderSeq' = orderSeq + 1
    /\ \E tax \in ToNumeric2(TaxAmountMills(q.subtotal)),
          tot \in ToNumeric2(TotalMills(q.subtotal)) :
          req' = [req EXCEPT ![r] = [q EXCEPT
              !.pc = "wh_items",
              !.orderId = orderSeq + 1,
              !.txOrder = {[id |-> orderSeq + 1, req |-> r, via |-> "webhook",
                            status |-> "pending", paymentStatus |-> "pending",
                            subtotal |-> q.subtotal, taxAmount |-> tax,
                            shippingAmount |-> ShippingCents, discountAmount |-> 0,
                            total |-> tot, transactionId |-> q.intent,
                            shippedAt |-> NoDate, deliveredAt |-> NoDate,
                            cancelledAt |-> NoDate]}]]
    /\ UNCHANGED <<db, itemSeq, endpointSecret, decBy>>

\* tx.insert(orders).values({... status: 'confirmed', transactionId: session.payment_intent})
WebhookInsertOrder(r) ==
    LET q == req[r] IN
    /\ q.op = "webhook" /\ q.pc = "wh_order"
    /\ orderSeq' = orderSeq + 1
    /\ \E tax \in ToNumeric2(TaxAmountMills(q.subtotal)),
          tot \in ToNumeric2(TotalMills(q.subtotal)) :
          req' = [req EXCEPT ![r] = [q EXCEPT
              !.pc = "wh_items",
              !.orderId = orderSeq + 1,
              !.txOrder = {[id |-> orderSeq + 1, req |-> r, via |-> "webhook",
                            status |-> "confirmed", paymentStatus |-> "pending",
                            subtotal |-> q.subtotal, taxAmount |-> tax,
                            shippingAmount |-> ShippingCents, discountAmount |-> 0,
                            total |-> tot, transactionId |-> q.intent,
                            shippedAt |-> NoDate, deliveredAt |-> NoDate,
                            cancelledAt |-> NoDate]}]]
    /\ UNCHANGED <<db, itemSeq, endpointSecret, decBy>>

\* tx.insert(orderItems).values(orderItemsWithOrderId)
WebhookInsertItems(r) ==
    LET q == req[r] IN
    /\ q.op = "webhook" /\ q.pc = "wh_items"
    /\ itemSeq' = itemSeq + Len(q.lines)
    /\ req' = [req EXCEPT ![r] = [q EXCEPT
          !.pc = "wh_commit", !.txItems = ItemRows(q, r, itemSeq)]]
    /\ UNCHANGED <<db, orderSeq, endpointSecret, decBy>>

\* The callback returns newOrder: commit; then res.json({received: true}).
WebhookCommit(r) ==
    /\ req[r].op = "webhook" /\ req[r].pc = "wh_commit"
    /\ ApplyTx(r)
    /\ req' = [req EXCEPT ![r] = Respond(ClearTx(@), 200, "")]
    /\ UNCHANGED <<orderSeq, itemSeq, endpointSecret>>

WebhookTxPcs == {"wh_item", "wh_order", "wh_items", "wh_commit"}

\* The failure reaching the HTTP response instead of being swallowed.
WebhookFail_Rethrow(r) ==
    /\ req[r].op = "webhook" /\ req[r].pc \in WebhookTxPcs
    /\ req' = [req EXCEPT ![r] = Respond(ClearTx(@), 500, "Internal")]
    /\ UNCHANGED <<db, orderSeq, itemSeq, endpointSecret, decBy>>

\* A statement of the transaction fails: rollback, the error is caught and
\* logged (lines 152-155), the answer is still {received: true}.
WebhookFail(r) ==
    /\ req[r].op = "webhook" /\ req[r].pc \in WebhookTxPcs
    /\ req' = [req EXCEPT ![r] = Respond(ClearTx(@), 200, "")]
    /\ UNCHANGED <<db, orderSeq, itemSeq, endpointSecret, decBy>>

WebhookStep(r) ==
    \/ WebhookItem(r)
    \/ WebhookInsertOrder(r)
    \/ WebhookInsertItems(r)
    \/ WebhookCommit(r)
    \/ WebhookFail(r)

\* ------------------------------------------- stripeCheckOut (part_004 22-125)
\* Lines 23-30: the cart and the email of the body.
CheckoutEntry(q) ==
    IF ~q.bodyOk \/ Len(q.items) = 0 THEN Respond(q, 400, "InvalidRequest")
    ELSE [q EXCEPT !.pc = "co_user"]

\* metaUser is the id of the account with the body's email, 0 when there is none.
StartCheckout(r, carts) ==
    /\ req[r].op = "none"
    /\ \E b \in BOOLEAN, u \in {0, 1}, c \in carts :
          req' = [req EXCEPT ![r] = CheckoutEntry(
                    [IdleReq EXCEPT !.op = "checkout", !.bodyOk = b,
                                    !.metaUser = u, !.items = c])]
    /\ UNCHANGED <<db, orderSeq, itemSeq, endpointSecret, decBy>>

\* Lines 34-39: the account must exist.
CheckoutUser(r) ==
    LET q == req[r] IN
    /\ q.op = "checkout" /\ q.pc = "co_user"
    /\ req' = [req EXCEPT ![r] =
          IF q.metaUser = 0 THEN Respond(q, 404, "UserNotFound")
          ELSE [q EXCEPT !.pc = "co_item", !.idx = 1]]
    /\ UNCHANGED <<db, orderSeq, itemSeq, endpointSecret, decBy>>

\* One pass of `for (const item of cart)` (lines 45-79): the product, the
\* inventory check `product.quantity < item.quantity`, the price of the moment.
CheckoutItem(r) ==
    LET q == req[r]
        it == q.items[q.idx]
    IN  /\ q.op = "checkout" /\ q.pc = "co_item"
        /\ req' = [req EXCEPT ![r] =
              IF it.productId \notin Products
              THEN Respond(q, 404, "ProductNotFound")
              ELSE IF products[it.productId].quantity < it.quantity
                   \* `Insufficient inventory for ${product.name}. Available: ${product.quantity}`
                   THEN Respond([q EXCEPT !.errName = {it.productId},
                                          !.errAvailable = {products[it.productId].quantity}],
                                400, "InsufficientStock")
                   ELSE [PushLine(q, [productId |-> it.productId, variantId |-> NoVariant,
                                      quantity |-> it.quantity,
                                      price |-> products[it.productId].price, named |-> TRUE])
                         EXCEPT !.pc = IF q.idx = Len(q.items) THEN "co_session" ELSE "co_item"]]
        /\ UNCHANGED <<db, orderSeq, itemSeq, endpointSecret, decBy>>

\* stripe.checkout.sessions.create succeeds (lines 94-116): the session holds
\* the line items at the prices just read and, as metadata, the user id and
\* the {productId, quantity} of each line.  The request record keeps them.
CheckoutCreateSession(r) ==
    /\ req[r].op = "checkout" /\ req[r].pc = "co_session"
    /\ req' = [req EXCEPT ![r] = Respond(@, 200, "")]
    /\ UNCHANGED <<db, orderSeq, itemSeq, endpointSecret, decBy>>

\* A select or the call to Stripe throws: the catch of lines 118-124.
CheckoutFail(r) ==
    /\ req[r].op = "checkout" /\ req[r].pc \in {"co_user", "co_item", "co_session"}
    /\ req' = [req EXCEPT ![r] = Respond(@, 500, "Internal")]
    /\ UNCHANGED <<db, orderSeq, itemSeq, endpointSecret, decBy>>

CheckoutStep(r) ==
    \/ CheckoutUser(r)
    \/ CheckoutItem(r)
    \/ CheckoutCreateSession(r)
    \/ CheckoutFail(r)

\* metadata.cartItems (lines 104-107): productId and quantity of each line
MetadataCart(lines) ==
    [k \in 1..Len(lines) |->
        [productId |-> lines[k].productId, variantId |-> NoVariant,
         quantity |-> lines[k].quantity]]

\* The checkout.session.completed event of a session a checkout created,
\* delivered to stripeWebhook with the session's metadata.
StartSessionWebhook(r) ==
    /\ req[r].op = "none"
    /\ \E c \in Reqs, s \in BOOLEAN, pi \in PaymentIntents :
          /\ req[c].op = "checkout" /\ req[c].status = 200
          /\ req' = [req EXCEPT ![r] = WebhookEntry(
                    [IdleReq EXCEPT !.op = "webhook", !.sigOk = s, !.evType = Completed,
                                    !.metaUser = req[c].metaUser, !.intent = pi,
                                    !.items = MetadataCart(req[c].lines), !.session = c],
                    endpointSecret)]
    /\ UNCHANGED <<db, orderSeq, itemSeq, endpointSecret, decBy>>

\* ------------------------- updateProduct (productsController.ts 153-195, 304-329)
StartUpdateProduct(r) ==
    /\ req[r].op = "none"
    /\ \E p \in ProductIds :
          req' = [req EXCEPT ![r] =
              [IdleReq EXCEPT !.op = "updateProduct", !.pc = "prod_select",
                              !.productId = p, !.newPrice = SalePrice]]
    /\ UNCHANGED <<db, orderSeq, itemSeq, endpointSecret, decBy>>

\* The select of lines 155-166.  The error `No product found with id ...`
\* does not include 'not found', so line 317 answers 500.
UpdateProductSelect(r) ==
    LET q == req[r] IN
    /\ q.op = "updateProduct" /\ q.pc = "prod_select"
    /\ req' = [req EXCEPT ![r] =
          IF q.productId \notin Products THEN Respond(q, 500, "Internal")
          ELSE [q EXCEPT !.pc = "prod_write"]]
    /\ UNCHANGED <<db, orderSeq, itemSeq, endpointSecret, decBy>>

\* db.update(products).set({price: payload.price.toString(), ...}) (lines 173-183)
UpdateProductWrite(r) ==
    LET q == req[r] IN
    /\ q.op = "updateProduct" /\ q.pc = "prod_write"
    /\ products' = [products EXCEPT ![q.productId].price = q.newPrice]
    /\ req' = [req EXCEPT ![r] = Respond(q, 200, "")]
    /\ UNCHANGED <<variants, orders, orderItems, orderSeq, itemSeq, endpointSecret, decBy>>

\* -------------------------------------------------- order maintenance
\* orderStatusEnum (part_009 143-151)
OrderStatuses ==
    {"pending", "confirmed", "processing", "shipped", "delivered", "cancelled", "refunded"}
\* paymentStatusEnum (part_009 153-159)
PaymentStatuses == {"pending", "paid", "failed", "refunded", "cancelled"}
\* a lock list without 'cancelled'
LockedStatuses_NoCancelled == {"shipped", "delivered"}
\* ['shipped', 'delivered', 'cancelled'] (line 554)
LockedStatuses == {"shipped", "delivered", "cancelled"}

OrderIds == 1..MaxOrderId           \* ids a request can name
HasOrder(id) == \E o \in orders : o.id = id
OrderRow(id) == CHOOSE o \in orders : o.id = id

\* ---- updateOrder (lines 465-532)
\* "" is an absent status, "archived" a value outside the enum.
StatusInputs == OrderStatuses \cup {"", "archived"}
PaymentInputs == PaymentStatuses \cup {"", "archived"}
\* bodies that carry a status only
StatusBodies == [status : StatusInputs, paymentStatus : {""}]
\* bodies that carry a status, a paymentStatus, or 'shipped' with 'paid'
UpdateBodies ==
    StatusBodies \cup [status : {""}, paymentStatus : PaymentInputs]
                 \cup {[status |-> "shipped", paymentStatus |-> "paid"]}

StartUpdateOrder(r, bodies) ==
    /\ req[r].op = "none"
    /\ \E id \in OrderIds, b \in bodies :
          req' = [req EXCEPT ![r] =
              [IdleReq EXCEPT !.op = "updateOrder", !.pc = "upd_select",
                              !.orderId = id, !.newStatus = b.status,
                              !.newPayment = b.paymentStatus]]
    /\ UNCHANGED <<db, orderSeq, itemSeq, endpointSecret, decBy>>

\* The select of lines 474-482 and the building of updateData.
UpdateSelect(r) ==
    LET q == req[r] IN
    /\ q.op = "updateOrder" /\ q.pc = "upd_select"
    /\ req' = [req EXCEPT ![r] =
          IF ~HasOrder(q.orderId) THEN Respond(q, 404, "NotFound")
          ELSE [q EXCEPT !.pc = "upd_write", !.seen = OrderRow(q.orderId).status]]
    /\ UNCHANGED <<db, orderSeq, itemSeq, endpointSecret, decBy>>

\* db.update(ordersTable).set(updateData).where(id = order_id): the status and
\* the paymentStatus are part of updateData only when they are values of
\* their enums (lines 486-492); nothing compares them with the row.  A row
\* deleted since the select matches nothing; the answer is 200 all the same.
\* Lines 507-513 add a timestamp when the requested status is shipped,
\* delivered or cancelled and differs from the status read by the select;
\* `new Date()` of request r is written r (one request, one date).
UpdateWrite(r) ==
    LET q == req[r] IN
    /\ q.op = "updateOrder" /\ q.pc = "upd_write"
    /\ orders' = {IF o.id = q.orderId
                  THEN [o EXCEPT
                          !.status = IF q.newStatus \in OrderStatuses
                                     THEN q.newStatus ELSE @,
                          !.paymentStatus = IF q.newPayment \in PaymentStatuses
                                            THEN q.newPayment ELSE @,
                          !.shippedAt = IF q.newStatus = "shipped" /\ q.seen # "shipped"
                                        THEN r ELSE @,
                          !.deliveredAt = IF q.newStatus = "delivered" /\ q.seen # "delivered"
                                          THEN r ELSE @,
                          !.cancelledAt = IF q.newStatus = "cancelled" /\ q.seen # "cancelled"
                                          THEN r ELSE @]
                  ELSE o : o \in orders}
    /\ req' = [req EXCEPT ![r] = Respond(q, 200, "")]
    /\ UNCHANGED <<products, variants, orderItems, orderSeq, itemSeq, endpointSecret, decBy>>

\* ---- addProductToOrder (lines 534-646)
\* quantity 0 is an absent quantity (`quantity || 1`).
AddBodies ==
    [productId : ProductIds, variantId : {NoVariant}, quantity : {0, 2}]
    \cup [productId : {1}, variantId : VariantIds, quantity : {0, 2}]

StartAddProduct(r) ==
    /\ req[r].op = "none"
    /\ \E id \in OrderIds, b \in AddBodies :
          req' = [req EXCEPT ![r] =
              [IdleReq EXCEPT !.op = "addItem", !.pc = "add_order",
                              !.orderId = id, !.items = <<b>>]]
    /\ UNCHANGED <<db, orderSeq, itemSeq, endpointSecret, decBy>>

\* Lines 543-556: the order must exist and must not be locked.
AddSelectOrder(r) ==
    LET q == req[r] IN
    /\ q.op = "addItem" /\ q.pc = "add_order"
    /\ req' = [req EXCEPT ![r] =
          IF ~HasOrder(q.orderId) THEN Respond(q, 404, "NotFound")
          ELSE IF OrderRow(q.orderId).status \in LockedStatuses
               THEN Respond([q EXCEPT !.seen = OrderRow(q.orderId).status], 400, "OrderLocked")
               ELSE [q EXCEPT !.pc = "add_product", !.seen = OrderRow(q.orderId).status]]
    /\ UNCHANGED <<db, orderSeq, itemSeq, endpointSecret, decBy>>

\* Lines 558-604: the variant and its product, or the product.
AddSelectProduct(r) ==
    LET q == req[r]
        b == q.items[1]
    IN  /\ q.op = "addItem" /\ q.pc = "add_product"
        /\ req' = [req EXCEPT ![r] =
              IF b.variantId # NoVariant
              THEN IF b.variantId \notin Variants
                      \/ variants[b.variantId].productId \notin Products
                   THEN Respond(q, 404, "ProductNotFound")
                   ELSE [q EXCEPT !.pc = "add_dup",
                                  !.subtotal = variants[b.variantId].price]
              ELSE IF b.productId \notin Products
                   THEN Respond(q, 404, "ProductNotFound")
                   ELSE [q EXCEPT !.pc = "add_dup",
                                  !.subtotal = products[b.productId].price]]
        /\ UNCHANGED <<db, orderSeq, itemSeq, endpointSecret, decBy>>

\* and(eq(orderId, order_id), eq(productId, productId),
\*     variantId ? eq(variantId, variantId) : undefined)   (lines 607-617)
\* and() drops an undefined condition: without a variantId any line of the
\* product matches, whatever its variant.
ExistingOrderItem_ProductOnly(orderId, productId, variantId) ==
    \E i \in orderItems : i.orderId = orderId /\ i.productId = productId

ExistingOrderItem(orderId, productId, variantId) ==
    \E i \in orderItems :
        /\ i.orderId = orderId
        /\ i.productId = productId
        /\ (variantId # NoVariant => i.variantId = variantId)

AddCheckDuplicate(r) ==
    LET q == req[r]
        b == q.items[1]
    IN  /\ q.op = "addItem" /\ q.pc = "add_dup"
        /\ req' = [req EXCEPT ![r] =
              IF ExistingOrderItem(q.orderId, b.productId, b.variantId)
              THEN Respond(q, 400, "DuplicateItem")
              ELSE [q EXCEPT !.pc = "add_insert"]]
        /\ UNCHANGED <<db, orderSeq, itemSeq, endpointSecret, decBy>>

\* an insert into a table without the foreign key on order_id
AddInsert_NoForeignKey(r) ==
    LET q == req[r]
        b == q.items[1]
    IN  /\ q.op = "addItem" /\ q.pc = "add_insert"
        /\ itemSeq' = itemSeq + 1
        /\ orderItems' = orderItems \cup
              {[id |-> itemSeq + 1, orderId |-> q.orderId, req |-> r,
                productId |-> b.productId, variantId |-> b.variantId,
                quantity |-> IF b.quantity = 0 THEN 1 ELSE b.quantity,
                price |-> q.subtotal]}
        /\ req' = [req EXCEPT ![r] = Respond(q, 201, "")]
        /\ UNCHANGED <<products, variants, orders, orderSeq, endpointSecret, decBy>>

\* an insert that also takes the line's quantity from the product's stock
AddInsert_TakesStock(r) ==
    LET q == req[r]
        b == q.items[1]
        n == IF b.quantity = 0 THEN 1 ELSE b.quantity
    IN  /\ q.op = "addItem" /\ q.pc = "add_insert"
        /\ itemSeq' = itemSeq + 1
        /\ IF HasOrder(q.orderId)
           THEN /\ orderItems' = orderItems \cup
                      {[id |-> itemSeq + 1, orderId |-> q.orderId, req |-> r,
                        productId |-> b.productId, variantId |-> b.variantId,
                        quantity |-> n, price |-> q.subtotal]}
                /\ products' = [products EXCEPT ![b.productId].quantity = @ - n]
                /\ req' = [req EXCEPT ![r] = Respond(q, 201, "")]
           ELSE /\ UNCHANGED <<orderItems, products>>
                /\ req' = [req EXCEPT ![r] = Respond(q, 500, "Internal")]
        /\ UNCHANGED <<variants, orders, orderSeq, endpointSecret, decBy>>

\* db.insert(orderItemsTable) (lines 623-635), committed on its own.
\* order_items.order_id references orders.id (part_009 line 225): the insert
\* of a line for an order deleted since the select fails, and the catch
\* answers 500.  No total is recomputed and no quantity is decremented.
AddInsert(r) ==
    LET q == req[r]
        b == q.items[1]
    IN  /\ q.op = "addItem" /\ q.pc = "add_insert"
        /\ itemSeq' = itemSeq + 1
        /\ IF HasOrder(q.orderId)
           THEN /\ orderItems' = orderItems \cup
                      {[id |-> itemSeq + 1, orderId |-> q.orderId, req |-> r,
                        productId |-> b.productId, variantId |-> b.variantId,
                        quantity |-> IF b.quantity = 0 THEN 1 ELSE b.quantity,
                        price |-> q.subtotal]}
                /\ req' = [req EXCEPT ![r] = Respond(q, 201, "")]
           ELSE /\ UNCHANGED orderItems
                /\ req' = [req EXCEPT ![r] = Respond(q, 500, "Internal")]
        /\ UNCHANGED <<products, variants, orders, orderSeq, endpointSecret, decBy>>

\* ---- deleteOrder (lines 682-719)
StartDeleteOrder(r) ==
    /\ req[r].op = "none"
    /\ \E id \in OrderIds :
          req' = [req EXCEPT ![r] =
              [IdleReq EXCEPT !.op = "deleteOrder", !.pc = "del_select", !.orderId = id]]
    /\ UNCHANGED <<db, orderSeq, itemSeq, endpointSecret, decBy>>

DeleteSelect(r) ==
    LET q == req[r] IN
    /\ q.op = "deleteOrder" /\ q.pc = "del_select"
    /\ req' = [req EXCEPT ![r] =
          IF ~HasOrder(q.orderId) THEN Respond(q, 404, "NotFound")
          ELSE [q EXCEPT !.pc = "del_items"]]
    /\ UNCHANGED <<db, orderSeq, itemSeq, endpointSecret, decBy>>

\* tx.delete(orderItemsTable).where(orderId = order_id): the rows are deleted
\* inside the transaction; other requests still see them.
DeleteItems_Autocommit(r) ==
    LET q == req[r] IN
    /\ q.op = "deleteOrder" /\ q.pc = "del_items"
    /\ req' = [req EXCEPT ![r] = [q EXCEPT
          !.pc = "del_order",
          !.delRows = {i \in orderItems : i.orderId = q.orderId}]]
    /\ orderItems' = {i \in orderItems : i.orderId # q.orderId}
    /\ UNCHANGED <<products, variants, orders, orderSeq, itemSeq, endpointSecret, decBy>>

DeleteItems(r) ==
    LET q == req[r] IN
    /\ q.op = "deleteOrder" /\ q.pc = "del_items"
    /\ req' = [req EXCEPT ![r] = [q EXCEPT
          !.pc = "del_order",
          !.delRows = {i \in orderItems : i.orderId = q.orderId}]]
    /\ UNCHANGED <<db, orderSeq, itemSeq, endpointSecret, decBy>>

\* tx.delete(ordersTable).where(id = order_id), then commit and the answer.
\* A line inserted for the order after the first delete still references the
\* row: the foreign key refuses the delete, the transaction rolls back and
\* the catch answers 500.
DeleteOrderCommit(r) ==
    LET q == req[r] IN
    /\ q.op = "deleteOrder" /\ q.pc = "del_order"
    /\ IF \E i \in orderItems \ q.delRows : i.orderId = q.orderId
       THEN /\ UNCHANGED <<orders, orderItems>>
            /\ req' = [req EXCEPT ![r] = Respond([q EXCEPT !.delRows = {}], 500, "Internal")]
       ELSE /\ orderItems' = orderItems \ q.delRows
            /\ orders' = {o \in orders : o.id # q.orderId}
            /\ req' = [req EXCEPT ![r] = Respond(q, 200, "")]
    /\ UNCHANGED <<products, variants, orderSeq, itemSeq, endpointSecret, decBy>>

\* A statement of the delete transaction fails: rollback, 500.
DeleteFail(r) ==
    /\ req[r].op = "deleteOrder" /\ req[r].pc \in {"del_items", "del_order"}
    /\ req' = [req EXCEPT ![r] = Respond([@ EXCEPT !.delRows = {}], 500, "Internal")]
    /\ UNCHANGED <<db, orderSeq, itemSeq, endpointSecret, decBy>>

\* ---- removeProductFromOrder (lines 648-680)
\* routers/ordersRouter.ts line 23 mounts the handler on
\* /:order_id/products/:product_id, where req.params.order_item_id is
\* undefined and parseInt gives NaN; middleware/authMiddleware.ts line 48
\* mounts it on /:order_id/items/:order_item_id.  Both are kept: the
\* parameter is NaN or the id of an item.
OrderItemIdParams == {NotANumber} \cup 1..MaxItemId

StartRemoveProduct(r) ==
    /\ req[r].op = "none"
    /\ \E id \in OrderIds, item \in OrderItemIdParams :
          req' = [req EXCEPT ![r] =
              LET q == [IdleReq EXCEPT !.op = "removeItem", !.orderId = id,
                                       !.orderItemId = item]
              IN  IF item = NotANumber THEN Respond(q, 400, "InvalidRequest")
                  ELSE [q EXCEPT !.pc = "rem_delete"]]
    /\ UNCHANGED <<db, orderSeq, itemSeq, endpointSecret, decBy>>

\* rows an open deleteOrder transaction has deleted and not yet committed:
\* another statement that wants them waits for that transaction to end
LockedRows == UNION {req[x].delRows : x \in {y \in Reqs : req[y].pc = "del_order"}}

\* a removal that gives the line's quantity back to its product
RemoveDelete_Restock(r) ==
    LET q == req[r]
        rows == {i \in orderItems : i.orderId = q.orderId /\ i.id = q.orderItemId}
    IN  /\ q.op = "removeItem" /\ q.pc = "rem_delete"
        /\ rows \cap LockedRows = {}
        /\ orderItems' = orderItems \ rows
        /\ products' = [p \in Products |->
              IF \E i \in rows : i.productId = p
              THEN [products[p] EXCEPT !.quantity =
                        @ + (CHOOSE i \in rows : i.productId = p).quantity]
              ELSE products[p]]
        /\ req' = [req EXCEPT ![r] =
              IF rows = {} THEN Respond(q, 404, "NotFound")
              ELSE Respond([q EXCEPT !.delRows = rows], 200, "")]
        /\ UNCHANGED <<variants, orders, orderSeq, itemSeq, endpointSecret, decBy>>

\* db.delete(orderItemsTable).where(orderId = order_id and id = order_item_id)
\* (lines 657-665), committed on its own.  The order's status is not read.
RemoveDelete(r) ==
    LET q == req[r]
        rows == {i \in orderItems : i.orderId = q.orderId /\ i.id = q.orderItemId}
    IN  /\ q.op = "removeItem" /\ q.pc = "rem_delete"
        /\ rows \cap LockedRows = {}
        /\ orderItems' = orderItems \ rows
        /\ req' = [req EXCEPT ![r] =
              IF rows = {} THEN Respond(q, 404, "NotFound")
              ELSE Respond([q EXCEPT !.delRows = rows], 200, "")]
        /\ UNCHANGED <<products, variants, orders, orderSeq, itemSeq, endpointSecret, decBy>>

MaintenanceStep(r) ==
    \/ StartRemoveProduct(r)
    \/ RemoveDelete(r)
    \/ StartUpdateOrder(r, StatusBodies)
    \/ UpdateSelect(r)
    \/ UpdateWrite(r)
    \/ StartAddProduct(r)
    \/ AddSelectOrder(r)
    \/ AddSelectProduct(r)
    \/ AddCheckDuplicate(r)
    \/ AddInsert(r)
    \/ StartDeleteOrder(r)
    \/ DeleteSelect(r)
    \/ DeleteItems(r)
    \/ DeleteOrderCommit(r)
    \/ DeleteFail(r)

\* ----------------------------------------------------------- specifications
\* Concurrent order creation: every request slot serves one createOrder or
\* one webhook delivery, in any interleaving.
Next ==
    \E r \in 1..NumCreators :
        \/ StartCreateOrder(r, SmallCarts)
        \/ CreateOrderStep(r)
        \/ StartWebhook(r, SmallWebhookCarts)
        \/ WebhookStep(r)

Spec == Init /\ [][Next]_vars

\* Webhook deliveries next to order creations of one unit, each webhook
\* handler running on: the event loop resumes an awaited statement once the
\* store has answered it, with a result or an error, so a handler that can
\* take a step eventually takes one.
UnitCarts == {<<[productId |-> 1, variantId |-> NoVariant, quantity |-> 1]>>}

NextLive ==
    \E r \in 1..NumCreators :
        \/ StartCreateOrder(r, UnitCarts)
        \/ CreateOrderStep(r)
        \/ StartWebhook(r, SmallWebhookCarts)
        \/ WebhookStep(r)

SpecLive ==
    /\ Init /\ [][NextLive]_vars
    /\ \A r \in 1..NumCreators : WF_vars(WebhookStep(r))

\* Checkout: checkout sessions, price changes and the webhook deliveries of
\* the sessions, in any interleaving.
CheckoutCarts ==
    SeqsUpTo({[productId |-> 1, variantId |-> NoVariant, quantity |-> MaxQty],
              GhostItem}, MaxCart)

NextCheckout ==
    \E r \in Reqs :
        \/ StartCheckout(r, CheckoutCarts)
        \/ CheckoutStep(r)
        \/ StartSessionWebhook(r)
        \/ WebhookStep(r)
        \/ StartUpdateProduct(r)
        \/ UpdateProductSelect(r)
        \/ UpdateProductWrite(r)

SpecCheckout == Init /\ [][NextCheckout]_vars

\* One request against the whole catalog: every cart of both products.
NextOne ==
    \/ StartCreateOrder(1, Carts)
    \/ CreateOrderStep(1)
    \/ StartWebhook(1, WebhookCarts)
    \/ WebhookStep(1)

SpecOne == InitAnyFlags /\ [][NextOne]_vars

\* One request for one line of product 2, of up to BulkQty pieces
\* (5 x 699.99 = 3499.95, a subtotal whose tax ends on a half cent).
BulkCarts ==
    {<<[productId |-> 2, variantId |-> NoVariant, quantity |-> n]>> : n \in 1..BulkQty}

NextTotals ==
    \/ StartCreateOrder(1, BulkCarts)
    \/ CreateOrderStep(1)
    \/ StartWebhook(1, BulkCarts)
    \/ WebhookStep(1)

SpecTotals == InitAnyFlags /\ [][NextTotals]_vars

\* Order creations served one after the other: a request arrives only when
\* no other request is being served.
Quiet == \A r \in Reqs : req[r].pc \in {"idle", "done"}

NextSeq ==
    \E r \in 1..NumCreators :
        \/ Quiet /\ StartCreateOrder(r, SmallCarts)
        \/ CreateOrderStep(r)

SpecSeq == Init /\ [][NextSeq]_vars

\* Order maintenance.  The store holds one order, number 1, created earlier
\* by createOrder from the cart <<1 x product 2>> (a state SpecOne reaches);
\* updateOrder, addProductToOrder and deleteOrder requests interleave freely.
SeedOrder ==
    [id |-> 1, req |-> 0, via |-> "direct", status |-> "pending",
     paymentStatus |-> "pending", subtotal |-> CatalogPrice[2],
     taxAmount |-> CHOOSE t \in ToNumeric2(TaxAmountMills(CatalogPrice[2])) : TRUE,
     shippingAmount |-> ShippingCents, discountAmount |-> 0,
     total |-> CHOOSE t \in ToNumeric2(TotalMills(CatalogPrice[2])) : TRUE,
     transactionId |-> "", shippedAt |-> NoDate, deliveredAt |-> NoDate,
     cancelledAt |-> NoDate]
SeedItem ==
    [id |-> 1, orderId |-> 1, req |-> 0, productId |-> 2, variantId |-> NoVariant,
     quantity |-> 1, price |-> CatalogPrice[2]]

InitOrders ==
    /\ products = [p \in Products |->
          [quantity |-> IF p = 1 THEN OnHand ELSE LowStock - 1,
           price |-> CatalogPrice[p],
           trackQuantity |-> TRUE, allowBackorder |-> FALSE]]
    /\ variants = [v \in Variants |->
          [quantity |-> VariantStock, price |-> VariantPrice[v], productId |-> VariantParent[v]]]
    /\ orders = {SeedOrder}
    /\ orderItems = {SeedItem}
    /\ orderSeq = 1
    /\ itemSeq = 1
    /\ endpointSecret = TRUE
    /\ req = [r \in Reqs |-> IdleReq]
    /\ decBy = [r \in Reqs |-> [product |-> [p \in Products |-> 0],
                               variant |-> [v \in Variants |-> 0]]]

NextOrders == \E r \in Reqs : MaintenanceStep(r)

SpecOrders == InitOrders /\ [][NextOrders]_vars

\* Status updates: updateOrder requests with every status and paymentStatus,
\* two at a time, against the seeded store.
NextUpdates ==
    \E r \in 1..NumCreators :
        \/ StartUpdateOrder(r, UpdateBodies)
        \/ UpdateSelect(r)
        \/ UpdateWrite(r)

SpecUpdates == InitOrders /\ [][NextUpdates]_vars

\* Stock: order creations of one line of product 1 (or of product 1 and a
\* product without a row) on two request slots, addProductToOrder requests
\* on the third, in any interleaving.
StockCarts ==
    {<<it>> : it \in StockItems} \cup {<<[productId |-> 1, variantId |-> NoVariant, quantity |-> 1], GhostItem>>}

NextStock ==
    \/ \E r \in 1..NumCreators :
          \/ StartCreateOrder(r, StockCarts)
          \/ CreateOrderStep(r)
          \/ StartWebhook(r, StockCarts)
          \/ WebhookStep(r)
    \/ \E r \in Reqs \ (1..NumCreators) :
          \/ StartAddProduct(r)
          \/ AddSelectOrder(r)
          \/ AddSelectProduct(r)
          \/ AddCheckDuplicate(r)
          \/ AddInsert(r)

SpecStock == Init /\ [][NextStock]_vars

\* addProductToOrder and deleteOrder requests against the seeded store, in
\* any interleaving.
NextAddDelete ==
    \E r \in Reqs :
        \/ StartAddProduct(r)
        \/ AddSelectOrder(r)
        \/ AddSelectProduct(r)
        \/ AddCheckDuplicate(r)
        \/ AddInsert(r)
        \/ StartDeleteOrder(r)
        \/ DeleteSelect(r)
        \/ DeleteItems(r)
        \/ DeleteOrderCommit(r)
        \/ DeleteFail(r)

SpecAddDelete == InitOrders /\ [][NextAddDelete]_vars

\* Orders taken back: removeProductFromOrder, updateOrder and deleteOrder
\* requests against the seeded store, in any interleaving.
NextReturns ==
    \E r \in Reqs :
        \/ StartRemoveProduct(r)
        \/ RemoveDelete(r)
        \/ StartUpdateOrder(r, StatusBodies)
        \/ UpdateSelect(r)
        \/ UpdateWrite(r)
        \/ StartDeleteOrder(r)
        \/ DeleteSelect(r)
        \/ DeleteItems(r)
        \/ DeleteOrderCommit(r)
        \/ DeleteFail(r)

SpecReturns == InitOrders /\ [][NextReturns]_vars

\* Status updates served one after the other, three in a row.
NextStamps ==
    \E r \in Reqs :
        \/ Quiet /\ StartUpdateOrder(r, StatusBodies)
        \/ UpdateSelect(r)
        \/ UpdateWrite(r)

SpecStamps == InitOrders /\ [][NextStamps]_vars

\* The seeded store is the store after that createOrder.
SeedReached ==
    /\ orders = {[SeedOrder EXCEPT !.req = 1]}
    /\ orderItems = {[SeedItem EXCEPT !.req = 1]}
    /\ products[2].quantity = LowStock - 1 /\ products[1].quantity = OnHand
    /\ orderSeq = 1 /\ itemSeq = 1

\* ------------------------------------------------------------------ claims
\* Units of product p a cart asks for on lines without a variant.
RECURSIVE Requested(_, _)
Requested(items, p) ==
    IF items = <<>> THEN 0
    ELSE (IF Head(items).productId = p /\ Head(items).variantId = NoVariant
          THEN Head(items).quantity ELSE 0) + Requested(Tail(items), p)

Strict(p) == products[p].trackQuantity /\ ~products[p].allowBackorder
Created(r) == req[r].op = "createOrder" /\ req[r].status = 201
OrdersBy(r) == {o \in orders : o.req = r}
ItemsBy(r) == {i \in orderItems : i.req = r}
NoDecrementBy(r) ==
    /\ \A p \in Products : decBy[r].product[p] = 0
    /\ \A v \in Variants : decBy[r].variant[v] = 0
WroteNothing(r) == OrdersBy(r) = {} /\ ItemsBy(r) = {} /\ NoDecrementBy(r)

\* C1: for a product with trackQuantity=true and allowBackorder=false, two
\* createOrder requests whose combined quantity exceeds the on-hand quantity
\* never both succeed; with quantity 5 and two requests of 3, one succeeds,
\* the other fails InsufficientStock and the final quantity is 2.
C1_NeverBothSucceed ==
    \A r1 \in Reqs, r2 \in Reqs :
        (r1 # r2 /\ Created(r1) /\ Created(r2))
        => \A p \in Products :
              \* the right-hand side is the quantity on hand before the two orders
              Strict(p) =>
                 Requested(req[r1].items, p) + Requested(req[r2].items, p)
                    <= products[p].quantity + decBy[r1].product[p] + decBy[r2].product[p]

\* C2: every product and variant with allowBackorder=false has quantity >= 0
\* after any interleaving of createOrder and webhook fulfilments.
C2_QuantityNonNegative ==
    /\ \A p \in Products : ~products[p].allowBackorder => products[p].quantity >= 0
    /\ \A v \in Variants : variants[v].quantity >= 0

\* C3: when order creations are served one after the other, a successful
\* createOrder consuming q leaves quantity = previous quantity - q, and a
\* later createOrder that asks for more than what remains is answered
\* InsufficientStock and leaves the quantity unchanged.
C3_ConsumeThenReject ==
    [][\A r \in Reqs, p \in Products :
          (req[r].op = "createOrder" /\ req[r].pc # "done" /\ req'[r].pc = "done"
           /\ Strict(p))
          => /\ req'[r].status = 201
                  => products'[p].quantity = products[p].quantity - Requested(req[r].items, p)
             /\ ((\E r1 \in Reqs \ {r} : Created(r1))
                 /\ Requested(req[r].items, p) > products[p].quantity)
                  => /\ req'[r].status # 201
                     /\ products'[p].quantity = products[p].quantity]_vars

\* C4: a createOrder answered with a validation error (unknown product or
\* variant, insufficient stock), also when earlier items of the cart were
\* valid, has created no Order row and no OrderItem row and has changed no
\* product or variant quantity.
C4_ValidationWritesNothing ==
    \A r \in Reqs :
        (req[r].op = "createOrder" /\ req[r].status \in {400, 404})
        => /\ WroteNothing(r)
           /\ req[r].txOrder = {} /\ req[r].txItems = {}

\* An earlier item of the cart passed, a later one was refused.
C4_Witness ==
    \E r \in Reqs :
        /\ req[r].op = "createOrder" /\ req[r].status \in {400, 404}
        /\ req[r].error \in {"ProductNotFound", "InsufficientStock"}
        /\ Len(req[r].lines) >= 1

\* C5: a createOrder that fails inside its transaction leaves nothing behind:
\* no order row, no item row, no decrement; an order that exists has all its
\* items and all its decrements (no order without items, no partial decrement).
C5_TransactionAllOrNothing ==
    \A r \in Reqs :
        req[r].op = "createOrder" =>
            IF req[r].status = 201
            THEN /\ Cardinality(OrdersBy(r)) = 1
                 /\ Cardinality(ItemsBy(r)) = Len(req[r].items)
                 /\ \A i \in ItemsBy(r) : \E o \in OrdersBy(r) : i.orderId = o.id
                 /\ \A p \in Products :
                       decBy[r].product[p] = Requested(req[r].items, p)
            ELSE WroteNothing(r)

\* The transaction failed after the order row, the item rows and the first
\* of two decrements.
C5_Witness ==
    \E r \in Reqs :
        /\ req[r].op = "createOrder" /\ req[r].status = 500
        /\ req[r].orderId # NoOrder
        /\ Len(req[r].items) = 2 /\ req[r].idx = 2

\* Sum of price * quantity over a set of item rows.
RECURSIVE ItemsTotal(_)
ItemsTotal(rows) ==
    IF rows = {} THEN 0
    ELSE LET i == CHOOSE x \in rows : TRUE
         IN  i.price * i.quantity + ItemsTotal(rows \ {i})

ItemsOf(o) == {i \in orderItems : i.orderId = o.id}
Abs(x) == IF x < 0 THEN -x ELSE x
\* a stored amount (cents) is the exact amount (mills) to two decimal places
ToTwoPlaces(cents, mills) == Abs(Mills(cents) - mills) <= 5

\* C6: every created order has total = sum(unitPrice * quantity) * (1 + 0.10)
\* + 10.00 to two decimal places; the cart {1 x 999.99, 2 x 699.99} is stored
\* with subtotal 2399.97, tax 240.00, total 2649.97.
C6_OrderTotal ==
    \A o \in orders :
        LET sum == ItemsTotal(ItemsOf(o)) IN
        /\ o.subtotal = sum
        /\ ToTwoPlaces(o.taxAmount, (Mills(sum) * TaxRatePercent) \div 100)
        /\ ToTwoPlaces(o.total,
                       (Mills(sum) * (100 + TaxRatePercent)) \div 100 + Mills(ShippingCents))
        /\ ({<<i.price, i.quantity>> : i \in ItemsOf(o)} = {<<99999, 1>>, <<69999, 2>>}
            /\ Cardinality(ItemsOf(o)) = 2)
           => (o.subtotal = 239997 /\ o.taxAmount = 24000 /\ o.total = 264997)

\* The scenario's order was created by createOrder.
C6_Witness ==
    \E o \in orders :
        /\ o.via = "direct"
        /\ {<<i.price, i.quantity>> : i \in ItemsOf(o)} = {<<99999, 1>>, <<69999, 2>>}
        /\ o.total = 264997

\* C7: deleteOrder removes the Order row and every OrderItem row of the order
\* in one atomic step: no item row exists without its order, and while the
\* order row exists the rows an open delete has removed are still there; once
\* deleteOrder has answered 200 the order and its items are gone (getOrderById
\* finds nothing); deleteOrder of an order that never existed is answered
\* NotFound and has deleted nothing.
C7_DeleteAtomic ==
    /\ \A i \in orderItems : HasOrder(i.orderId)
    /\ \A r \in Reqs :
          req[r].op = "deleteOrder" =>
             /\ (req[r].pc = "del_order" /\ HasOrder(req[r].orderId))
                   => req[r].delRows \subseteq orderItems
             /\ req[r].status = 200
                   => /\ ~HasOrder(req[r].orderId)
                      /\ \A i \in orderItems : i.orderId # req[r].orderId
             /\ (req[r].orderId > orderSeq /\ req[r].pc # "del_select")
                   => /\ req[r].status = 404 /\ req[r].error = "NotFound"
                      /\ req[r].delRows = {}
             /\ req[r].status \in {404, 500} => req[r].delRows = {}

\* An order with two lines was deleted, and a delete of an absent order was
\* answered NotFound.
C7_Witness ==
    /\ \E r \in Reqs :
          /\ req[r].op = "deleteOrder" /\ req[r].status = 200
          /\ Cardinality(req[r].delRows) = 2
    /\ \E r \in Reqs : req[r].op = "deleteOrder" /\ req[r].status = 404

\* C8: addProductToOrder on an order whose status is shipped, delivered or
\* cancelled is answered OrderLocked and inserts no OrderItem.
C8_OrderLocked ==
    \A r \in Reqs :
        (req[r].op = "addItem" /\ req[r].seen \in {"shipped", "delivered", "cancelled"})
        => /\ req[r].pc = "done"
           /\ req[r].status = 400 /\ req[r].error = "OrderLocked"
           /\ ItemsBy(r) = {}

\* An addProductToOrder met a cancelled order.
C8_Witness ==
    \E r \in Reqs :
        /\ req[r].op = "addItem" /\ req[r].seen = "cancelled"
        /\ req[r].status = 400 /\ req[r].error = "OrderLocked"

\* the duplicate check of request r has just been answered
DupChecked(r) ==
    req[r].op = "addItem" /\ req[r].pc = "add_dup" /\ req'[r].pc # "add_dup"
DupRejected(r) ==
    req'[r].status = 400 /\ req'[r].error = "DuplicateItem"
\* the order has a line for the same product and the same variant
SameLine(r) ==
    \E i \in orderItems :
        /\ i.orderId = req[r].orderId
        /\ i.productId = req[r].items[1].productId
        /\ i.variantId = req[r].items[1].variantId
\* the order has a line for the same product, of any variant
SameProduct(r) ==
    \E i \in orderItems :
        /\ i.orderId = req[r].orderId
        /\ i.productId = req[r].items[1].productId

\* C9 (as stated): addProductToOrder is rejected with DuplicateItem, inserting
\* nothing and merging no quantity, exactly when the order already has a line
\* for the same product and the same variant.
C9_DuplicateExactlySameVariant ==
    [][\A r \in Reqs :
          DupChecked(r) =>
             /\ DupRejected(r) <=> SameLine(r)
             /\ orderItems' = orderItems]_vars

\* C9 (amended): addProductToOrder is rejected with DuplicateItem, inserting
\* nothing and merging no quantity, exactly when the order already has a line
\* for the same product and the same variant, or, the request naming no
\* variant, a line for the same product with any variant.
C9_DuplicateAmended ==
    [][\A r \in Reqs :
          DupChecked(r) =>
             /\ DupRejected(r) <=>
                   IF req[r].items[1].variantId = NoVariant
                   THEN SameProduct(r) ELSE SameLine(r)
             /\ orderItems' = orderItems]_vars

\* A request naming no variant was rejected as a duplicate although the
\* order's only line for the product has a variant.
C9_Witness ==
    /\ \E r \in Reqs :
          /\ req[r].op = "addItem" /\ req[r].error = "DuplicateItem"
          /\ req[r].items[1].variantId = NoVariant
          /\ ~\E i \in orderItems :
                /\ i.orderId = req[r].orderId
                /\ i.productId = req[r].items[1].productId
                /\ i.variantId = NoVariant
          /\ \E i \in orderItems :
                /\ i.orderId = req[r].orderId
                /\ i.productId = req[r].items[1].productId
                /\ i.variantId # NoVariant

\* C10: a webhook event whose signature does not verify, or that arrives when
\* no webhook secret is configured, is answered 400 and creates no Order, no
\* OrderItem and changes no quantity, whatever its metadata.
C10_InvalidSignatureRejected ==
    \A r \in Reqs :
        (req[r].op = "webhook" /\ (~req[r].sigOk \/ ~endpointSecret))
        => /\ req[r].pc = "done" /\ req[r].status = 400
           /\ req[r].error = "InvalidSignature"
           /\ WroteNothing(r)
           /\ req[r].txOrder = {} /\ req[r].txItems = {}

\* A payment-completed event with complete, valid metadata and a bad signature.
C10_Witness ==
    \E r \in Reqs :
        /\ req[r].op = "webhook" /\ ~req[r].sigOk /\ endpointSecret
        /\ req[r].evType = Completed /\ req[r].metaUser # 0
        /\ Len(req[r].items) > 0
        /\ \A k \in 1..Len(req[r].items) : req[r].items[k].productId \in Products
        /\ req[r].status = 400

\* the event of request r has passed constructEvent
Verified(r) == req[r].op = "webhook" /\ req[r].sigOk /\ endpointSecret

\* C11: once a webhook event has passed signature verification the handler
\* always eventually answers 200, whether fulfilment succeeded, failed
\* (missing metadata, unknown product, store error) or the event was of
\* another type; and it never answers anything else.
C11_WebhookAcknowledged ==
    /\ \A r \in Reqs : Verified(r) ~> (req[r].pc = "done" /\ req[r].status = 200)
    /\ [](\A r \in Reqs : (Verified(r) /\ req[r].pc = "done") => req[r].status = 200)

\* A fulfilment that failed after its order insert (a store error) and one
\* that met an unknown product were both acknowledged.
C11_Witness ==
    /\ \E r \in Reqs :
          /\ Verified(r) /\ req[r].status = 200 /\ req[r].evType = Completed
          /\ req[r].orderId # NoOrder /\ OrdersBy(r) = {}
    /\ \E r \in Reqs :
          /\ Verified(r) /\ req[r].status = 200 /\ req[r].evType = Completed
          /\ req[r].metaUser # 0
          /\ \E k \in 1..Len(req[r].items) : req[r].items[k].productId \notin Products

\* C12: webhook fulfilment is atomic: for a payment-completed event either
\* the Order row, all its OrderItem rows and every per-item decrement are
\* committed together, or none of them is, the decrements of earlier items of
\* the cart included.
C12_WebhookAtomic ==
    \A r \in Reqs :
        req[r].op = "webhook" =>
            IF OrdersBy(r) # {}
            THEN /\ Cardinality(OrdersBy(r)) = 1
                 /\ Cardinality(ItemsBy(r)) = Len(req[r].items)
                 /\ \A i \in ItemsBy(r) : \E o \in OrdersBy(r) : i.orderId = o.id
                 /\ \A p \in Products :
                       decBy[r].product[p] = Requested(req[r].items, p)
                 /\ req[r].pc = "done"
            ELSE WroteNothing(r)

\* A delivery whose first item was decremented inside the transaction and
\* whose second item names a product that does not exist; and a delivery of
\* two items that was committed.
C12_Witness ==
    /\ \E r \in Reqs :
          /\ Verified(r) /\ req[r].pc = "done" /\ Len(req[r].items) = 2
          /\ req[r].items[1].productId \in Products
          /\ req[r].items[2].productId \notin Products
    /\ \E r \in Reqs :
          /\ Verified(r) /\ OrdersBy(r) # {} /\ Cardinality(ItemsBy(r)) = 2

\* C13: createOrder without a valid caller identity (no token, or a token
\* that does not verify) is answered Unauthenticated and writes nothing: no
\* order, no items, no quantity change.
C13_Unauthenticated ==
    \A r \in Reqs :
        (req[r].op = "createOrder" /\ req[r].token \in {"none", "forged"})
        => /\ req[r].pc = "done"
           /\ req[r].status = 401 /\ req[r].error = "Unauthenticated"
           /\ WroteNothing(r)
           /\ req[r].lines = <<>> /\ req[r].txOrder = {} /\ req[r].txItems = {}

\* A complete request for a product in stock, once without a token and once
\* with a token that does not verify.
C13_Witness ==
    \A t \in {"none", "forged"} :
        \E r \in Reqs :
            /\ req[r].op = "createOrder" /\ req[r].token = t /\ req[r].bodyOk
            /\ Len(req[r].items) = 1
            /\ req[r].items[1].productId \in Products
            /\ req[r].items[1].variantId = NoVariant
            /\ req[r].items[1].quantity <= products[req[r].items[1].productId].quantity
            /\ req[r].status = 401

\* position of a status on pending -> confirmed -> processing -> shipped -> delivered
StatusRank(st) ==
    CASE st = "pending" -> 1 [] st = "confirmed" -> 2 [] st = "processing" -> 3
      [] st = "shipped" -> 4 [] st = "delivered" -> 5 [] OTHER -> 0
TerminalStatuses == {"delivered", "cancelled", "refunded"}
\* a change the lifecycle allows: forward along the chain, or to cancelled or
\* refunded from a status that is not terminal
LifecycleAllows(from, to) ==
    /\ from \notin TerminalStatuses
    /\ \/ to \in {"cancelled", "refunded"}
       \/ StatusRank(to) > StatusRank(from)

\* C14: every change of Order.status follows the lifecycle pending ->
\* confirmed -> processing -> shipped -> delivered, cancelled and refunded
\* being reachable only from a non-terminal status: no updateOrder moves an
\* order backwards or out of a terminal status.
C14_StatusLifecycle ==
    [][\A o \in orders, n \in orders' :
          (o.id = n.id /\ o.status # n.status) => LifecycleAllows(o.status, n.status)]_vars

\* a change of paymentStatus the lifecycle allows
PaymentAllows(from, to) ==
    \/ from = "pending" /\ to = "paid"
    \/ from \in {"pending", "paid"} /\ to \in {"failed", "refunded", "cancelled"}

\* C15: every change of Order.paymentStatus follows pending -> paid, with
\* failed, refunded and cancelled reachable only from pending or paid: no
\* updateOrder moves it out of failed, refunded or cancelled, or from paid
\* back to pending.
C15_PaymentLifecycle ==
    [][\A o \in orders, n \in orders' :
          (o.id = n.id /\ o.paymentStatus # n.paymentStatus)
          => PaymentAllows(o.paymentStatus, n.paymentStatus)]_vars

\* C16: an order request for more than the on-hand quantity of a product
\* with allowBackorder=false fails with an InsufficientStock error that
\* carries the product's name and the available count.
C16_InsufficientStockPayload ==
    \A r \in Reqs :
        req[r].error = "InsufficientStock"
        => \E k \in 1..Len(req[r].items) :
              LET p == req[r].items[k].productId IN
              /\ p \in Products
              /\ req[r].items[k].quantity > products[p].quantity
              /\ req[r].errName = {p}
              /\ req[r].errAvailable = {products[p].quantity}

\* C17: for a product with trackQuantity=false, ordering always passes the
\* stock check and performs no inventory mutation: a successful createOrder
\* leaves the product's quantity as it was.
C17_UntrackedUnchanged ==
    \A r \in Reqs :
        req[r].op = "createOrder" =>
            /\ req[r].error = "InsufficientStock"
                  => \A p \in req[r].errName : products[p].trackQuantity
            /\ req[r].status = 201
                  => \A p \in Products :
                        ~products[p].trackQuantity => decBy[r].product[p] = 0

\* Units of variant v a cart asks for.
RECURSIVE RequestedVariant(_, _)
RequestedVariant(items, v) ==
    IF items = <<>> THEN 0
    ELSE (IF Head(items).variantId = v THEN Head(items).quantity ELSE 0)
         + RequestedVariant(Tail(items), v)

\* C18: when a cart item names a variant, the stock check compares the
\* requested quantity with the variant's on-hand quantity: a createOrder
\* asking for more of a variant than is on hand is rejected InsufficientStock;
\* on success the decrement is applied to the variant and the parent
\* product's quantity changes only by the lines without a variant.
C18_VariantStock ==
    \A r \in Reqs :
        (req[r].op = "createOrder" /\ req[r].pc = "done") =>
            /\ (/\ req[r].auth /\ req[r].bodyOk
                /\ Len(req[r].items) = 1
                /\ req[r].items[1].variantId \in Variants
                /\ req[r].items[1].quantity
                      > variants[req[r].items[1].variantId].quantity
                        + decBy[r].variant[req[r].items[1].variantId])
                  => req[r].status = 400 /\ req[r].error = "InsufficientStock"
            /\ req[r].status = 201
                  => /\ \A v \in Variants :
                           decBy[r].variant[v] = RequestedVariant(req[r].items, v)
                     /\ \A p \in Products :
                           decBy[r].product[p] = Requested(req[r].items, p)

\* item rows of the order with this id
ItemsOfOrder(id) == {i \in orderItems : i.orderId = id}

\* C19: items are added to or removed from an order only while its status is
\* not shipped, delivered or cancelled: no addItem or removeItem changes the
\* item set of an order that has one of these statuses at the moment of the
\* write, also when an updateOrder to such a status interleaves.
C19_ItemsFrozenWhenLocked ==
    [][\A r \in Reqs :
          (/\ req[r].op \in {"addItem", "removeItem"}
           /\ req'[r] # req[r]
           /\ {i \in orderItems' : i.orderId = req[r].orderId} # ItemsOfOrder(req[r].orderId))
          => ~(/\ HasOrder(req[r].orderId)
               /\ OrderRow(req[r].orderId).status \in {"shipped", "delivered", "cancelled"})]_vars

\* C20: the webhook prices the order with the product prices current at
\* fulfilment: each line takes the price the product has when the handler
\* reads it, whatever price the checkout session showed, and the OrderItem
\* rows and the order subtotal are built from these lines.
C20_WebhookCurrentPrice ==
    /\ [][\A r \in Reqs :
             (/\ req[r].op = "webhook" /\ req[r].pc = "wh_item"
              /\ Len(req'[r].lines) = Len(req[r].lines) + 1)
             => req'[r].lines[Len(req'[r].lines)].price
                   = products[req[r].items[req[r].idx].productId].price]_vars
    /\ [](\A r \in Reqs : \A o \in OrdersBy(r) :
             req[r].op = "webhook" =>
                /\ o.subtotal = ItemsTotal(ItemsOf(o))
                /\ \A i \in ItemsOf(o) :
                      \E k \in 1..Len(req[r].lines) :
                          /\ req[r].lines[k].productId = i.productId
                          /\ req[r].lines[k].quantity = i.quantity
                          /\ req[r].lines[k].price = i.price)

\* The order of a session that showed the catalogue price was stored at the
\* price set in between.
C20_Witness ==
    \E r \in Reqs :
        /\ req[r].op = "webhook" /\ req[r].session # NoSession
        /\ \E o \in OrdersBy(r) :
              /\ o.subtotal = SalePrice * req[r].items[1].quantity
              /\ \A i \in ItemsOf(o) : i.price = SalePrice
        /\ req[req[r].session].lines[1].price = CatalogPrice[1]
        /\ Len(req[r].items) = 1

\* request r has read the quantity of product p for its stock check and has
\* not yet committed or given up
HoldsCheck(r, p) ==
    /\ req[r].op = "createOrder" /\ req[r].pc \notin {"idle", "done"}
    /\ \E k \in 1..Len(req[r].lines) :
          req[r].lines[k].productId = p /\ req[r].lines[k].variantId = NoVariant

\* C21: in createOrder the stock check and the decrement happen inside the
\* transaction of the order write: between the moment a request reads a
\* product's quantity for its stock check and the moment it decrements it, no
\* other request's write to that product is committed.
C21_CheckAndDecrementIsolated ==
    [][\A r \in Reqs, p \in Products :
          (HoldsCheck(r, p) /\ req'[r] = req[r])
          => products'[p].quantity = products[p].quantity]_vars

\* the item names a product or a variant that has no row
Unresolved(it) ==
    IF it.variantId # NoVariant
    THEN it.variantId \notin Variants \/ variants[it.variantId].productId \notin Products
    ELSE it.productId \notin Products
\* the item, without variant, asks for more than the stock of a tracked
\* product that takes no backorder
Short(it) ==
    /\ it.variantId = NoVariant /\ it.productId \in Products
    /\ products[it.productId].trackQuantity
    /\ ~products[it.productId].allowBackorder
    /\ products[it.productId].quantity < it.quantity
\* the request got past authentication
Validating(r) == req[r].op = "createOrder" /\ req[r].pc = "done" /\ req[r].auth
\* an empty cart or an incomplete body is refused before any product is read
RefusedBeforeLookup(r) ==
    (Validating(r) /\ (~req[r].bodyOk \/ Len(req[r].items) = 0))
    => /\ req[r].status = 400 /\ req[r].error = "InvalidRequest"
       /\ req[r].lines = <<>> /\ req[r].idx = 0

StampOf(o, st) ==
    CASE st = "shipped" -> o.shippedAt
      [] st = "delivered" -> o.deliveredAt
      [] st = "cancelled" -> o.cancelledAt
StampedStatuses == {"shipped", "delivered", "cancelled"}

\* C23: updateOrder stamps shippedAt, deliveredAt or cancelledAt when the
\* order first enters shipped, delivered or cancelled, and only then: a
\* timestamp changes only from null, in the step that moves the order into
\* its status from another one; once written it is never overwritten, neither
\* by an update that keeps the status nor by a later re-entry into the status
\* (shipped -> delivered -> shipped).
C23_StampedOnFirstEntryOnly ==
    [][\A o \in orders, n \in orders', st \in StampedStatuses :
          o.id = n.id =>
            /\ StampOf(n, st) # StampOf(o, st)
                  => StampOf(o, st) = NoDate /\ n.status = st /\ o.status # st
            /\ (n.status = st /\ o.status # st /\ StampOf(o, st) = NoDate)
                  => StampOf(n, st) # NoDate]_vars

\* C24: in every reachable state every stored order satisfies
\* total = subtotal + taxAmount + shippingAmount - discountAmount.
C24_TotalIsSumOfParts ==
    \A o \in orders :
        o.total = o.subtotal + o.taxAmount + o.shippingAmount - o.discountAmount

\* The monetary fields are written at creation only: no step of addItem,
\* removeItem or updateOrder changes subtotal, taxAmount, shippingAmount,
\* discountAmount or total of a stored order.
MoneyFrozen ==
    [][\A o \in orders, n \in orders' :
          o.id = n.id =>
            /\ n.subtotal = o.subtotal /\ n.taxAmount = o.taxAmount
            /\ n.shippingAmount = o.shippingAmount
            /\ n.discountAmount = o.discountAmount /\ n.total = o.total]_vars

\* C25: inventory decrements are never reversed: no step of deleteOrder, of
\* updateOrder (with status cancelled or any other) or of removeItem changes
\* the quantity of a product or of a variant.
C25_DecrementsNeverReversed ==
    [][\A r \in Reqs :
          (req'[r] # req[r] /\ req'[r].op \in {"deleteOrder", "updateOrder", "removeItem"})
          => /\ \A p \in Products : products'[p].quantity = products[p].quantity
             /\ \A v \in Variants : variants'[v].quantity = variants[v].quantity]_vars

\* The order's line was removed, the order was cancelled and then deleted,
\* and product 2 still misses the piece the order took.
C25_Witness ==
    /\ \E r \in Reqs : /\ req[r].op = "removeItem" /\ req[r].status = 200
                         /\ SeedItem \in req[r].delRows
    /\ \E r \in Reqs : /\ req[r].op = "updateOrder" /\ req[r].status = 200
                         /\ req[r].newStatus = "cancelled" /\ req[r].seen # "cancelled"
    /\ \E r \in Reqs : req[r].op = "deleteOrder" /\ req[r].status = 200
    /\ orders = {} /\ orderItems = {}
    /\ products[2].quantity = LowStock - 1

\* C26: an order created by createOrder starts with status pending and
\* paymentStatus pending; an order created by the webhook starts with status
\* confirmed and carries the transaction id of the payment, and no state
\* shows it with status pending.
C26_InitialStatus ==
    [][\A n \in orders' :
          /\ (\A o \in orders : o.id # n.id) =>
                IF n.via = "direct"
                THEN n.status = "pending" /\ n.paymentStatus = "pending"
                ELSE /\ n.status = "confirmed"
                     /\ n.transactionId \in PaymentIntents
                     /\ n.transactionId = req[n.req].intent
          /\ n.via = "webhook" => n.status # "pending"]_vars

\* The store holds an order of createOrder and an order of the webhook.
C26_Witness ==
    /\ \E o \in orders : o.via = "direct" /\ req[o.req].op = "createOrder"
    /\ \E o \in orders : o.via = "webhook" /\ req[o.req].op = "webhook"
                          /\ o.transactionId = req[o.req].intent

\* two deliveries of one verified checkout.session.completed event
SameEvent(r1, r2) ==
    /\ r1 # r2 /\ Verified(r1) /\ Verified(r2)
    /\ req[r1].intent = req[r2].intent /\ req[r1].items = req[r2].items
    /\ req[r1].metaUser = req[r2].metaUser

\* C27: webhook fulfilment is idempotent per payment: when the same verified
\* event is delivered twice, at most one order exists for its transaction id
\* and the inventory is decremented at most once.
C27_FulfilledOnce ==
    \A r1 \in Reqs, r2 \in Reqs :
        SameEvent(r1, r2) =>
            /\ Cardinality({o \in orders : o.via = "webhook"
                                /\ o.transactionId = req[r1].intent}) <= 1
            /\ \A p \in Products :
                  decBy[r1].product[p] + decBy[r2].product[p]
                      <= Requested(req[r1].items, p)

\* quantities when the catalog is loaded
InitialQuantity(p) == IF p = 1 THEN OnHand ELSE LowStock
\* what the committed order creation of request r took of product p
TakenBy(r, p) ==
    IF req[r].op \in {"createOrder", "webhook"} /\ OrdersBy(r) # {}
    THEN Requested(req[r].items, p) ELSE 0
RECURSIVE TakenByAll(_, _)
TakenByAll(S, p) ==
    IF S = {} THEN 0
    ELSE LET r == CHOOSE x \in S : TRUE IN TakenBy(r, p) + TakenByAll(S \ {r}, p)

\* C28: stock conservation: with no catalog edit, for every product the
\* initial quantity minus the current quantity is the sum of the quantities
\* ordered of it over the committed order creations, direct and webhook; a
\* rejected or rolled-back creation contributes nothing, and addItem
\* contributes nothing.
C28_StockConserved ==
    /\ \A p \in Products :
          InitialQuantity(p) - products[p].quantity = TakenByAll(Reqs, p)
    /\ \A v \in Variants : variants[v].quantity = VariantStock

\* An order creation was committed and took stock of product 1, addItem
\* added a line of product 1 to its order, and another creation was rolled
\* back after it had taken an order id.
C28_Witness ==
    /\ \E r \in Reqs : TakenBy(r, 1) > 0
    /\ \E i \in orderItems : req[i.req].op = "addItem" /\ i.productId = 1
    /\ \E r \in Reqs : /\ req[r].op \in {"createOrder", "webhook"}
                         /\ req[r].pc = "done" /\ req[r].orderId # NoOrder
                         /\ OrdersBy(r) = {}

\* C29: no order has two lines for the same (product, variant) pair, neither
\* when createOrder receives a cart that lists the same product twice nor
\* when two addItem requests for the same order and product run concurrently.
C29_OneLinePerProduct ==
    \A i \in orderItems, j \in orderItems :
        (i.orderId = j.orderId /\ i.productId = j.productId
            /\ i.variantId = j.variantId) => i = j

\* addItem request r found its order (the select of lines 543-551 returned
\* a row)
FoundOrder(r) ==
    req[r].op = "addItem" /\ req[r].pc \notin {"idle", "add_order"} /\ req[r].seen # ""

\* C30: every OrderItem references an existing Order, under every
\* interleaving of addItem with deleteOrder: an addItem that found the order
\* before a concurrent deleteOrder committed leaves no line behind.
C30_ItemsReferenceOrders ==
    /\ \A i \in orderItems : \E o \in orders : o.id = i.orderId
    /\ \A r \in Reqs :
          (FoundOrder(r) /\ ~HasOrder(req[r].orderId))
          => ItemsBy(r) = {}

\* An addItem found order 1, a deleteOrder of order 1 committed, and the
\* insert of the addItem was then refused.
C30_Witness ==
    \E r \in Reqs, d \in Reqs :
        /\ FoundOrder(r) /\ req[r].pc = "done" /\ req[r].status = 500
        /\ req[d].op = "deleteOrder" /\ req[d].status = 200
        /\ req[d].orderId = req[r].orderId
        /\ ~HasOrder(req[r].orderId)

=============================================================================
